---- MODULE Spec2Model ----
(***************************************************************************)
(* The codemod scripts of emf-ui/app: each reads test source files,        *)
(* rewrites their text and writes them back.                               *)
(*                                                                         *)
(* A file's content is a sequence of lexemes.  Every lexeme is the literal *)
(* text it stands for; whitespace lexemes are kept as lexemes of their     *)
(* own.  A substring test of the code ("'x' in content") is the test that  *)
(* some lexeme holds that substring; a regular expression of the code is   *)
(* matched lexeme by lexeme, leftmost match first, non-overlapping, as     *)
(* re.sub does.                                                            *)
(***************************************************************************)
EXTENDS Integers, Sequences, FiniteSets, TLC

VARIABLES
    script,        \* the script that is run
    fs,            \* the file system: path -> [exists, content]
    fs0,           \* the file system when the current run started
    idx,           \* position of the batch loop in the script's file list
    log,           \* one entry per handled path: [path, result, wrote]
    updated_count, \* the counter the batch scripts print at the end
    exit_status,   \* "running", or the exit status of the process
    rerun          \* TRUE in a second run of the script on what the first left

vars == <<script, fs, fs0, idx, log, updated_count, exit_status, rerun>>

\* Longest file content, in lexemes, that a run starts from.
MaxLen == 4

(***************************************************************************)
(* Sequences                                                               *)
(***************************************************************************)
SeqsUpTo(S, n) == UNION {[1..k -> S] : k \in 0..n}

Sub(s, a, b) == IF a > b THEN <<>> ELSE SubSeq(s, a, b)

Occurs(S, s) == \E i \in 1..Len(s) : s[i] \in S

RECURSIVE Count(_, _)
Count(S, s) == IF s = <<>> THEN 0
               ELSE (IF Head(s) \in S THEN 1 ELSE 0) + Count(S, Tail(s))

Missing == [exists |-> FALSE, content |-> <<>>]

File(c) == [exists |-> TRUE, content |-> c]

\* Whitespace lexemes (\s+ of the regular expressions).
Spaces == {" ", "\n", "\n    "}

\* Whitespace lexemes that hold a newline.
Newlines == {"\n", "\n    "}

(***************************************************************************)
(* fix_fetch_mocks.py                                                      *)
(***************************************************************************)
\* The file list, cut to its first two paths (the loop treats every path
\* alike); the same holds for the lists of the other batch scripts.
FetchMocks_test_files ==
    <<"emf-ui/app/src/pages/CollectionsPage/CollectionsPage.test.tsx",
      "emf-ui/app/src/pages/DashboardPage/DashboardPage.test.tsx">>

\* The lexemes a file handed to fix_fetch_mocks is made of.
FetchMocks_Lexemes ==
    {"import {", "}", "setupAuthMocks", "wrapFetchMock", "mockFetch",
     "mockFetch.mockReset();", "\n"}

\* Lexemes holding the substring 'wrapFetchMock'.
HasWrapFetchMock ==
    {"wrapFetchMock", "setupAuthMocks, wrapFetchMock",
     "\n    wrapFetchMock(mockFetch);", "wrapFetchMock(mockFetch);",
     "wrapFetchMock(vi);"}

\* Lexemes holding the substring 'mockFetch'.
HasMockFetch ==
    {"mockFetch", "mockFetch.mockReset();", "\n    wrapFetchMock(mockFetch);",
     "wrapFetchMock(mockFetch);"}

\* Lexemes holding the substring 'setupAuthMocks'.
HasSetupAuthMocks ==
    {"setupAuthMocks", "setupAuthMocks, wrapFetchMock",
     "cleanupAuthMocks = setupAuthMocks();"}

\* str.replace('setupAuthMocks', 'setupAuthMocks, wrapFetchMock') on a lexeme.
ReplaceSetup(t) ==
    CASE t = "setupAuthMocks" -> "setupAuthMocks, wrapFetchMock"
      [] t = "setupAuthMocks, wrapFetchMock" ->
             "setupAuthMocks, wrapFetchMock, wrapFetchMock"
      [] t = "cleanupAuthMocks = setupAuthMocks();" ->
             "cleanupAuthMocks = setupAuthMocks, wrapFetchMock();"
      [] OTHER -> t

\* import\s+{[^}]*setupAuthMocks[^}]*} tried at lexeme i: the end of the
\* match, or 0.  [^}]* cannot pass a closing brace, so the match ends at the
\* first "}" after i and holds setupAuthMocks before it.
import_pattern(c, i) ==
    IF c[i] # "import {" THEN 0
    ELSE LET closes == {j \in (i + 1)..Len(c) : c[j] = "}"}
         IN  IF closes = {} THEN 0
             ELSE LET j == CHOOSE k \in closes : \A m \in closes : k <= m
                  IN  IF Occurs(HasSetupAuthMocks, Sub(c, i + 1, j - 1))
                      THEN j ELSE 0

add_wrap_to_import(import_line) ==
    IF ~Occurs(HasWrapFetchMock, import_line)
    THEN [k \in 1..Len(import_line) |-> ReplaceSetup(import_line[k])]
    ELSE import_line

\* re.sub(import_pattern, add_wrap_to_import, content) from lexeme i on.
RECURSIVE SubImport(_, _)
SubImport(c, i) ==
    IF i > Len(c) THEN <<>>
    ELSE LET j == import_pattern(c, i)
         IN  IF j = 0 THEN <<c[i]>> \o SubImport(c, i + 1)
             ELSE add_wrap_to_import(Sub(c, i, j)) \o SubImport(c, j + 1)

\* \s*wrapFetchMock matched at lexeme i (the negative lookahead's body).
RECURSIVE SpaceThenWrap(_, _)
SpaceThenWrap(c, i) ==
    IF i > Len(c) THEN FALSE
    ELSE IF c[i] \in Spaces THEN SpaceThenWrap(c, i + 1)
    ELSE c[i] \in {"wrapFetchMock", "\n    wrapFetchMock(mockFetch);",
                   "wrapFetchMock(mockFetch);", "wrapFetchMock(vi);"}

\* reset_pattern with a pattern that is too loose: any mockFetch matches.
reset_pattern_loose(c, i) ==
    c[i] \in {"mockFetch.mockReset();", "mockFetch"} /\ ~SpaceThenWrap(c, i + 1)

\* mockFetch\.mockReset\(\);(?!\s*wrapFetchMock) matched at lexeme i.
reset_pattern(c, i) ==
    c[i] = "mockFetch.mockReset();" /\ ~SpaceThenWrap(c, i + 1)

\* add_wrap_after_reset with a misspelt call: the inserted text does not hold
\* the guard string.
add_wrap_after_reset_misspelt(reset_line) ==
    <<reset_line, "\n    wrapFetch(mockFetch);">>

add_wrap_after_reset(reset_line) ==
    <<reset_line, "\n    wrapFetchMock(mockFetch);">>

\* SubReset as re.sub(..., count=1): only the first match is replaced.
SubReset_first(c, i) ==
    LET at == {k \in i..Len(c) : reset_pattern(c, k)}
    IN  IF at = {} THEN Sub(c, i, Len(c))
        ELSE LET k == CHOOSE m \in at : \A n \in at : m <= n
             IN  Sub(c, i, k - 1) \o add_wrap_after_reset(c[k])
                    \o Sub(c, k + 1, Len(c))

\* re.sub(pattern, add_wrap_after_reset, content) from lexeme i on.
RECURSIVE SubReset(_, _)
SubReset(c, i) ==
    IF i > Len(c) THEN <<>>
    ELSE IF reset_pattern(c, i)
         THEN add_wrap_after_reset(c[i]) \o SubReset(c, i + 1)
         ELSE <<c[i]>> \o SubReset(c, i + 1)

\* update_test_file without its 'wrapFetchMock' in content check.
FetchMocks_update_test_file_unguarded(f) ==
    IF ~f.exists
    THEN [file |-> f, result |-> "not found", wrote |-> FALSE]
    ELSE IF ~Occurs(HasMockFetch, f.content)
    THEN [file |-> f, result |-> "no mockFetch", wrote |-> FALSE]
    ELSE IF ~Occurs(HasSetupAuthMocks, f.content)
    THEN [file |-> f, result |-> "no setupAuthMocks", wrote |-> FALSE]
    ELSE LET content == SubReset(SubImport(f.content, 1), 1)
         IN  IF content # f.content
             THEN [file |-> File(content), result |-> "updated", wrote |-> TRUE]
             ELSE [file |-> f, result |-> "no changes", wrote |-> FALSE]

\* update_test_file on a file: the file it leaves, what it printed and
\* whether it opened the file for writing.
FetchMocks_update_test_file(f) ==
    IF ~f.exists
    THEN [file |-> f, result |-> "not found", wrote |-> FALSE]
    ELSE IF Occurs(HasWrapFetchMock, f.content)
    THEN [file |-> f, result |-> "already updated", wrote |-> FALSE]
    ELSE IF ~Occurs(HasMockFetch, f.content)
    THEN [file |-> f, result |-> "no mockFetch", wrote |-> FALSE]
    ELSE IF ~Occurs(HasSetupAuthMocks, f.content)
    THEN [file |-> f, result |-> "no setupAuthMocks", wrote |-> FALSE]
    ELSE LET content == SubReset(SubImport(f.content, 1), 1)
         IN  IF content # f.content
             THEN [file |-> File(content), result |-> "updated", wrote |-> TRUE]
             ELSE [file |-> f, result |-> "no changes", wrote |-> FALSE]

(***************************************************************************)
(* fix_setup_auth_mocks.py                                                 *)
(***************************************************************************)
SetupAuth_test_files ==
    <<"emf-ui/app/src/pages/MenuBuilderPage/MenuBuilderPage.test.tsx",
      "emf-ui/app/src/pages/OIDCProvidersPage/OIDCProvidersPage.test.tsx">>

SetupAuth_Lexemes ==
    {"let cleanupAuthMocks: () => void;", "beforeEach(() => {", "\n    ", " ",
     "mockFetch.mockReset();", "vi.clearAllMocks();", "global.fetch = vi.fn();",
     "cleanupAuthMocks = setupAuthMocks();"}

\* Lexemes holding the substring 'cleanupAuthMocks = setupAuthMocks()'.
HasSetupCall ==
    {"cleanupAuthMocks = setupAuthMocks();",
     "    cleanupAuthMocks = setupAuthMocks();"}

\* Lexemes holding the substring 'let cleanupAuthMocks'.
HasCleanupDecl ==
    {"let cleanupAuthMocks: () => void;", "  let cleanupAuthMocks: () => void;"}

\* The end of the run of whitespace lexemes that starts at lexeme i
\* (i - 1 when lexeme i is no whitespace).
RECURSIVE SpaceEnd(_, _)
SpaceEnd(c, i) ==
    IF i <= Len(c) /\ c[i] \in Spaces THEN SpaceEnd(c, i + 1) ELSE i - 1

\* The last lexeme of a..b that holds a newline, or 0.
LastNewline(c, a, b) ==
    LET nl == {k \in a..b : c[k] \in Newlines}
    IN  IF nl = {} THEN 0 ELSE CHOOSE k \in nl : \A m \in nl : m <= k

\* (beforeEach\(\(\) => \{)\s*(\n\s*)(<first>) tried at lexeme i, <first>
\* being one of the statements of firsts: group 2 and the end of the match
\* (end 0: no match).  \s* is greedy, so group 2 starts at the last newline
\* before the statement.
BeforeEachMatch(c, i, firsts) ==
    IF c[i] # "beforeEach(() => {" THEN [end |-> 0, g2 |-> <<>>]
    ELSE LET e == SpaceEnd(c, i + 1)
             n == LastNewline(c, i + 1, e)
         IN  IF n # 0 /\ e + 1 <= Len(c) /\ c[e + 1] \in firsts
             THEN [end |-> e + 1, g2 |-> Sub(c, n, e)]
             ELSE [end |-> 0, g2 |-> <<>>]

\* re.sub(pattern, r'\1\2cleanupAuthMocks = setupAuthMocks();\2\3', content)
\* from lexeme i on, for pattern1 and pattern2.
RECURSIVE SubBeforeEach(_, _, _)
SubBeforeEach(c, i, firsts) ==
    IF i > Len(c) THEN <<>>
    ELSE LET m == BeforeEachMatch(c, i, firsts)
         IN  IF m.end = 0 THEN <<c[i]>> \o SubBeforeEach(c, i + 1, firsts)
             ELSE <<c[i]>> \o m.g2 \o <<"cleanupAuthMocks = setupAuthMocks();">>
                      \o m.g2 \o <<c[m.end]>>
                      \o SubBeforeEach(c, m.end + 1, firsts)

pattern1(c) == SubBeforeEach(c, 1, {"mockFetch.mockReset();"})

pattern2(c) ==
    SubBeforeEach(c, 1, {"vi.clearAllMocks();", "global.fetch = vi.fn();"})

\* pattern3's group 3, vi\.clearAllMocks\(\);\s*\n\s*setupMswHandlers\(\);
\* tried at lexeme i: its end, or 0.
ClearThenMsw(c, i) ==
    IF i > Len(c) \/ c[i] # "vi.clearAllMocks();" THEN 0
    ELSE LET e == SpaceEnd(c, i + 1)
         IN  IF LastNewline(c, i + 1, e) # 0 /\ e + 1 <= Len(c)
                /\ c[e + 1] = "setupMswHandlers();"
             THEN e + 1 ELSE 0

RECURSIVE pattern3From(_, _)
pattern3From(c, i) ==
    IF i > Len(c) THEN <<>>
    ELSE LET e == IF c[i] = "beforeEach(() => {" THEN SpaceEnd(c, i + 1) ELSE 0
             n == IF c[i] = "beforeEach(() => {"
                  THEN LastNewline(c, i + 1, e) ELSE 0
             z == IF n # 0 THEN ClearThenMsw(c, e + 1) ELSE 0
         IN  IF z = 0 THEN <<c[i]>> \o pattern3From(c, i + 1)
             ELSE <<c[i]>> \o Sub(c, n, e)
                      \o <<"cleanupAuthMocks = setupAuthMocks();">>
                      \o Sub(c, n, e) \o Sub(c, e + 1, z)
                      \o pattern3From(c, z + 1)

pattern3(c) == pattern3From(c, 1)

\* The three substitutions applied one after the other, whatever the earlier
\* ones did.
SetupAuth_rewrite_in_sequence(original_content) ==
    pattern3(pattern2(pattern1(original_content)))

\* The three substitutions of fix_test_file, the later ones tried only while
\* the content is still the original one.
SetupAuth_rewrite(original_content) ==
    LET c1 == pattern1(original_content)
        c2 == IF c1 = original_content THEN pattern2(c1) ELSE c1
    IN  IF c2 = original_content THEN pattern3(c2) ELSE c2

SetupAuth_fix_test_file(f) ==
    IF ~f.exists
    THEN [file |-> f, result |-> "not found", wrote |-> FALSE]
    ELSE IF Occurs(HasSetupCall, f.content)
    THEN [file |-> f, result |-> "already fixed", wrote |-> FALSE]
    ELSE IF ~Occurs(HasCleanupDecl, f.content)
    THEN [file |-> f, result |-> "no declaration", wrote |-> FALSE]
    ELSE LET content == SetupAuth_rewrite(f.content)
         IN  IF content # f.content
             THEN [file |-> File(content), result |-> "fixed", wrote |-> TRUE]
             ELSE [file |-> f, result |-> "pattern not found", wrote |-> FALSE]

(***************************************************************************)
(* fix_mock_responses.py                                                   *)
(***************************************************************************)
MockResponses_test_files ==
    <<"emf-ui/app/src/pages/DashboardPage/DashboardPage.test.tsx",
      "emf-ui/app/src/pages/MenuBuilderPage/MenuBuilderPage.test.tsx">>

\* A call argument together with the two parentheses that close the calls.
MockResponses_Lexemes ==
    {"mockFetch.mockResolvedValue(createMockResponse(",
     "Promise.resolve(createMockResponse(", "createMockResponse(",
     "items))", "null))", "undefined))"}

\* ([a-zA-Z_][a-zA-Z0-9_]*)\)\) on a lexeme: group 1, or "" when the lexeme
\* is not an identifier followed by the two closing parentheses.
ArrayName(t) ==
    CASE t = "items))" -> "items"
      [] t = "null))" -> "null"
      [] t = "undefined))" -> "undefined"
      [] OTHER -> ""

\* The pagination object around an array name, closed like the call was.
Paginated(array_name) ==
    CASE array_name = "items" ->
             "{ content: items, totalElements: items.length, totalPages: 1, size: 1000, number: 0 }))"
      [] array_name = "null" ->
             "{ content: null, totalElements: null.length, totalPages: 1, size: 1000, number: 0 }))"
      [] array_name = "undefined" ->
             "{ content: undefined, totalElements: undefined.length, totalPages: 1, size: 1000, number: 0 }))"

\* replace_call without the test for null and undefined.
replace_call_always(opening, arg) == <<opening, Paginated(ArrayName(arg))>>

\* replace_simple and replace_promise on a match <<opening, argument>>.
replace_call(opening, arg) ==
    IF ArrayName(arg) \in {"null", "undefined"}
    THEN <<opening, arg>>
    ELSE <<opening, Paginated(ArrayName(arg))>>

\* re.sub of the pattern that starts with `opening`, from lexeme i on.
RECURSIVE SubCall(_, _, _)
SubCall(c, i, opening) ==
    IF i > Len(c) THEN <<>>
    ELSE IF c[i] = opening /\ i < Len(c) /\ ArrayName(c[i + 1]) # ""
         THEN replace_call(c[i], c[i + 1]) \o SubCall(c, i + 2, opening)
         ELSE <<c[i]>> \o SubCall(c, i + 1, opening)

wrap_array_in_paginated_response(content) ==
    SubCall(SubCall(content, 1, "mockFetch.mockResolvedValue(createMockResponse("),
            1, "Promise.resolve(createMockResponse(")

\* update_test_file without os.path.exists, opening the file with 'a+': a
\* missing file is created empty.
MockResponses_update_test_file_creating(f) ==
    LET content == wrap_array_in_paginated_response(f.content)
    IN  IF f.exists /\ content # f.content
        THEN [file |-> File(content), result |-> "updated", wrote |-> TRUE]
        ELSE [file |-> File(f.content), result |-> "no changes", wrote |-> FALSE]

MockResponses_update_test_file(f) ==
    IF ~f.exists
    THEN [file |-> f, result |-> "not found", wrote |-> FALSE]
    ELSE LET content == wrap_array_in_paginated_response(f.content)
         IN  IF content # f.content
             THEN [file |-> File(content), result |-> "updated", wrote |-> TRUE]
             ELSE [file |-> f, result |-> "no changes", wrote |-> FALSE]

(***************************************************************************)
(* Contents as lines (fix_tests.py, fix_resource_form_tests.py)            *)
(***************************************************************************)
\* For the two scripts that work line by line a file's content is the
\* sequence of its lines, content.split('\n'): never empty, an empty file
\* being one empty line.
split(content) == content

\* '\n'.join(lines): the content whose lines are `lines`; no line at all
\* joins to the empty content, which is one empty line.
join(lines) == IF lines = <<>> THEN <<"">> ELSE lines

\* line.count('{')
CountOpen(line) ==
    CASE line \in {"function createWrapper() {", "{",
                   "describe('Page', () => {", "  beforeEach(() => {",
                   "  afterEach(() => {",
                   "  render(<Page />, { wrapper: createWrapper() });",
                   "  render(<Page />, { wrapper: createTestWrapper() });",
                   "import { it } from 'vitest';",
                   "import { BrowserRouter } from 'react-router-dom';",
                   "import { createTestWrapper, setupAuthMocks } from '../../test/testUtils';",
                   "    global.fetch = vi.fn().mockImplementation((url) => {",
                   "    const mockFetch = vi.fn().mockImplementation((url) => {",
                   "      (url) => {"} -> 1
      [] OTHER -> 0

\* line.count('}')
CountClose(line) ==
    CASE line \in {"}", "});", "      }", "    }) as typeof global.fetch;",
                   "  render(<Page />, { wrapper: createWrapper() });",
                   "  render(<Page />, { wrapper: createTestWrapper() });",
                   "import { it } from 'vitest';",
                   "import { BrowserRouter } from 'react-router-dom';",
                   "import { createTestWrapper, setupAuthMocks } from '../../test/testUtils';"} -> 1
      [] OTHER -> 0

(***************************************************************************)
(* fix_tests.py                                                            *)
(***************************************************************************)
Tests_files ==
    <<"src/pages/CollectionsPage/CollectionsPage.test.tsx",
      "src/pages/DashboardPage/DashboardPage.test.tsx">>

Tests_Lines ==
    {"import { it } from 'vitest';", "function createWrapper() {",
     "function createWrapper()", "{", "}", "describe('Page', () => {",
     "  beforeEach(() => {", "  render(<Page />, { wrapper: createWrapper() });"}

\* Lines holding the substring 'createTestWrapper'.
HasCreateTestWrapper ==
    {"import { createTestWrapper, setupAuthMocks } from '../../test/testUtils';",
     "  render(<Page />, { wrapper: createTestWrapper() });",
     "function createTestWrapper()", "function createTestWrapper() {"}

\* Lines holding "from 'vitest'".
FromVitest == {"import { it } from 'vitest';"}

\* Lines that name one of the old providers and hold 'import'.
OldImports == {"import { BrowserRouter } from 'react-router-dom';"}

\* Lines holding 'function createWrapper()' or 'function createTestWrapper()'.
WrapperDeclarations ==
    {"function createWrapper()", "function createWrapper() {",
     "function createTestWrapper()", "function createTestWrapper() {"}

\* Lines holding 'describe('.
Describes == {"describe('Page', () => {"}

\* Lines holding '  beforeEach(() => {'.
BeforeEachLines == {"  beforeEach(() => {"}

\* Lines holding '  afterEach(() => {'.
AfterEachLines == {"  afterEach(() => {"}

\* Lines holding 'cleanupAuthMocks'.
HasCleanupAuthMocks ==
    {"  let cleanupAuthMocks: () => void;",
     "    cleanupAuthMocks = setupAuthMocks();", "    cleanupAuthMocks();"}

\* line.replace('createWrapper()', 'createTestWrapper()')
ReplaceCreateWrapper(line) ==
    CASE line = "  render(<Page />, { wrapper: createWrapper() });" ->
             "  render(<Page />, { wrapper: createTestWrapper() });"
      [] line = "function createWrapper()" -> "function createTestWrapper()"
      [] line = "function createWrapper() {" -> "function createTestWrapper() {"
      [] OTHER -> line

\* The local variables of fix_test_file before its loop.
Tests_start ==
    [new_lines |-> <<>>, in_create_wrapper |-> FALSE, brace_count |-> 0,
     added_import |-> FALSE, added_cleanup_var |-> FALSE, describe_depth |-> 0]

\* One iteration of `for i, line in enumerate(lines)`, i counted from 1.
Tests_line(lines, i, st) ==
    LET line == lines[i]
        out(ls) == [st EXCEPT !.new_lines = st.new_lines \o ls]
    IN
    IF line \in FromVitest /\ ~st.added_import
    THEN [out(<<line, "import { createTestWrapper, setupAuthMocks } from '../../test/testUtils';">>)
             EXCEPT !.added_import = TRUE]
    ELSE IF line \in OldImports
    THEN st
    ELSE IF line \in WrapperDeclarations
    THEN [st EXCEPT !.in_create_wrapper = TRUE, !.brace_count = 0]
    ELSE IF st.in_create_wrapper
    THEN LET n == st.brace_count + CountOpen(line) - CountClose(line)
         IN  [st EXCEPT !.brace_count = n,
                        !.in_create_wrapper = ~(n < 0)]
    ELSE
    LET line2 == ReplaceCreateWrapper(line)
        isDescribe == line2 \in Describes
        depth == st.describe_depth + (IF isDescribe THEN 1 ELSE 0)
        st2 == [st EXCEPT !.describe_depth = depth]
        out2(ls) == [st2 EXCEPT !.new_lines = st.new_lines \o ls]
        nextLacksCleanup == i + 1 <= Len(lines)
                               /\ lines[i + 1] \notin HasCleanupAuthMocks
    IN
    IF isDescribe /\ depth = 1 /\ ~st.added_cleanup_var
    THEN [out2(<<line2, "  let cleanupAuthMocks: () => void;", "">>)
             EXCEPT !.added_cleanup_var = TRUE]
    ELSE IF line2 \in BeforeEachLines /\ depth = 1
    THEN out2(IF nextLacksCleanup
              THEN <<line2, "    cleanupAuthMocks = setupAuthMocks();">>
              ELSE <<line2>>)
    ELSE IF line2 \in AfterEachLines /\ depth = 1
    THEN out2(IF nextLacksCleanup
              THEN <<line2, "    cleanupAuthMocks();">>
              ELSE <<line2>>)
    ELSE out2(<<line2>>)

RECURSIVE Tests_loop(_, _, _)
Tests_loop(lines, i, st) ==
    IF i > Len(lines) THEN st
    ELSE Tests_loop(lines, i + 1, Tests_line(lines, i, st))

\* fix_test_file as the loop over `files` calls it: open() raises on a missing
\* file and the loop's except clause prints the error.
Tests_fix_test_file(f) ==
    IF ~f.exists
    THEN [file |-> f, result |-> "error", wrote |-> FALSE]
    ELSE IF Occurs(HasCreateTestWrapper, f.content)
    THEN [file |-> f, result |-> "already fixed", wrote |-> FALSE]
    ELSE LET st == Tests_loop(split(f.content), 1, Tests_start)
         IN  [file |-> File(join(st.new_lines)), result |-> "fixed",
              wrote |-> TRUE]

(***************************************************************************)
(* fix_resource_form_tests.py                                              *)
(***************************************************************************)
ResourceForm_file == "src/pages/ResourceFormPage/ResourceFormPage.test.tsx"

ResourceForm_Lines ==
    {"    global.fetch = vi.fn().mockImplementation((url) => {",
     "    global.fetch = vi.fn().mockImplementation(",
     "    wrapFetchMock(vi);", "      (url) => {", "      }",
     "    }) as typeof global.fetch;"}

\* Lines holding 'global.fetch = vi.fn().mockImplementation'.
MalformedMocks ==
    {"    global.fetch = vi.fn().mockImplementation((url) => {",
     "    global.fetch = vi.fn().mockImplementation("}

\* line.replace('global.fetch = vi.fn()', 'const mockFetch = vi.fn()')
ReplaceGlobalFetch(line) ==
    CASE line = "    global.fetch = vi.fn().mockImplementation((url) => {" ->
             "    const mockFetch = vi.fn().mockImplementation((url) => {"
      [] line = "    global.fetch = vi.fn().mockImplementation(" ->
             "    const mockFetch = vi.fn().mockImplementation("
      [] OTHER -> line

\* ' ' * indent + 'wrapFetchMock(mockFetch);' for the indent of `current`.
IndentedWrap(current) ==
    CASE current = "    }) as typeof global.fetch;" -> "    wrapFetchMock(mockFetch);"

\* The inner `while i < len(lines)` loop, which looks for the end of the
\* mockImplementation block: the lines it hands to fixed_lines and the line
\* the outer loop goes on from.  st = [i, brace_count, found_opening,
\* block_lines].
RECURSIVE ResourceForm_block(_, _)
ResourceForm_block(lines, st) ==
    IF st.i > Len(lines) THEN [added |-> <<>>, i |-> st.i]
    ELSE LET current == lines[st.i]
             block == Append(st.block_lines, current)
             n == st.brace_count + CountOpen(current) - CountClose(current)
             found == st.found_opening \/ CountOpen(current) > 0
         IN  IF found /\ n = 0 /\ current = "    }) as typeof global.fetch;"
             THEN [added |-> block \o <<IndentedWrap(current), "">>,
                   i |-> st.i + 1]
             ELSE ResourceForm_block(lines,
                      [i |-> st.i + 1, brace_count |-> n,
                       found_opening |-> found, block_lines |-> block])

\* The outer `while i < len(lines)` loop from line i on (i counted from 1).
RECURSIVE ResourceForm_loop(_, _)
ResourceForm_loop(lines, i) ==
    IF i > Len(lines) THEN <<>>
    ELSE IF lines[i] \in MalformedMocks /\ i + 1 <= Len(lines)
            /\ lines[i + 1] = "    wrapFetchMock(vi);"
    THEN LET b == ResourceForm_block(lines,
                      [i |-> i + 2, brace_count |-> 0,
                       found_opening |-> FALSE, block_lines |-> <<>>])
         IN  <<ReplaceGlobalFetch(lines[i])>> \o b.added
                 \o ResourceForm_loop(lines, b.i)
    ELSE <<lines[i]>> \o ResourceForm_loop(lines, i + 1)

\* The whole script on its file: open() raises on a missing file and nothing
\* catches it.
ResourceForm_script(f) ==
    IF ~f.exists
    THEN [file |-> f, result |-> "FileNotFoundError", wrote |-> FALSE]
    ELSE [file |-> File(join(ResourceForm_loop(split(f.content), 1))),
          result |-> "fixed", wrote |-> TRUE]

(***************************************************************************)
(* The scripts as processes                                                *)
(***************************************************************************)
BatchScripts ==
    {"fix_fetch_mocks", "fix_setup_auth_mocks", "fix_mock_responses", "fix_tests"}

SingleFileScripts == {"fix_resource_form_tests"}

\* The scripts that split the content into lines.
LineScripts == {"fix_tests", "fix_resource_form_tests"}

\* The batch scripts whose main() counts the files it updated.
CountingScripts ==
    {"fix_fetch_mocks", "fix_setup_auth_mocks", "fix_mock_responses"}

Scripts == BatchScripts \cup SingleFileScripts

test_files(s) ==
    CASE s = "fix_fetch_mocks" -> FetchMocks_test_files
      [] s = "fix_setup_auth_mocks" -> SetupAuth_test_files
      [] s = "fix_mock_responses" -> MockResponses_test_files
      [] s = "fix_tests" -> Tests_files
      [] s = "fix_resource_form_tests" -> <<ResourceForm_file>>

Lexemes(s) ==
    CASE s = "fix_fetch_mocks" -> FetchMocks_Lexemes
      [] s = "fix_setup_auth_mocks" -> SetupAuth_Lexemes
      [] s = "fix_mock_responses" -> MockResponses_Lexemes
      [] s = "fix_tests" -> Tests_Lines
      [] s = "fix_resource_form_tests" -> ResourceForm_Lines

ProcessFile(s, f) ==
    CASE s = "fix_fetch_mocks" -> FetchMocks_update_test_file(f)
      [] s = "fix_setup_auth_mocks" -> SetupAuth_fix_test_file(f)
      [] s = "fix_mock_responses" -> MockResponses_update_test_file(f)
      [] s = "fix_tests" -> Tests_fix_test_file(f)
      [] s = "fix_resource_form_tests" -> ResourceForm_script(f)

Paths(s) == {test_files(s)[i] : i \in 1..Len(test_files(s))}

\* The contents a run of script s may find: at most MaxLen lexemes, and for
\* the line scripts at least one line.
Inputs(s) ==
    IF s \in LineScripts
    THEN SeqsUpTo(Lexemes(s), MaxLen) \ {<<>>}
    ELSE SeqsUpTo(Lexemes(s), MaxLen)

\* A script of S starts on a file system in which any of its listed paths
\* may be missing; the files that exist hold the same content.
InitOf(S) ==
    /\ script \in S
    /\ \E c \in Inputs(script) :
       \E present \in SUBSET Paths(script) :
          fs = [p \in Paths(script) |->
                   IF p \in present THEN File(c) ELSE Missing]
    /\ fs0 = fs
    /\ idx = 1
    /\ log = <<>>
    /\ updated_count = 0
    /\ exit_status = "running"
    /\ rerun = FALSE

Init == InitOf(Scripts)

\* One iteration of the loop over the script's file list.
BatchStep ==
    /\ script \in BatchScripts
    /\ exit_status = "running"
    /\ idx <= Len(test_files(script))
    /\ LET path == test_files(script)[idx]
           r == ProcessFile(script, fs[path])
       IN  /\ fs' = [fs EXCEPT ![path] = r.file]
           /\ log' = Append(log, [path |-> path, result |-> r.result,
                                  wrote |-> r.wrote])
           /\ updated_count' =
                 IF script \in CountingScripts /\ r.wrote
                 THEN updated_count + 1 ELSE updated_count
    /\ idx' = idx + 1
    /\ UNCHANGED <<script, fs0, exit_status, rerun>>

\* The loop is over: the script prints its summary and the process ends.
BatchExit ==
    /\ script \in BatchScripts
    /\ exit_status = "running"
    /\ idx > Len(test_files(script))
    /\ exit_status' = "0"
    /\ UNCHANGED <<script, fs, fs0, idx, log, updated_count, rerun>>

\* A script that works on one hard-coded file, from its open() to its end:
\* an exception nothing catches ends the process with status 1.
SingleRun ==
    /\ script \in SingleFileScripts
    /\ exit_status = "running"
    /\ LET path == test_files(script)[1]
           r == ProcessFile(script, fs[path])
       IN  /\ fs' = [fs EXCEPT ![path] = r.file]
           /\ log' = Append(log, [path |-> path, result |-> r.result,
                                  wrote |-> r.wrote])
           /\ exit_status' = IF r.result = "FileNotFoundError" THEN "1" ELSE "0"
    /\ UNCHANGED <<script, fs0, idx, updated_count, rerun>>

\* The script is started a second time on the files its first run left.
Rerun ==
    /\ exit_status # "running"
    /\ ~rerun
    /\ rerun' = TRUE
    /\ fs0' = fs
    /\ idx' = 1
    /\ log' = <<>>
    /\ updated_count' = 0
    /\ exit_status' = "running"
    /\ UNCHANGED <<script, fs>>

NextBatch == BatchStep \/ BatchExit \/ Rerun

Next == BatchStep \/ BatchExit \/ SingleRun \/ Rerun

\* The four batch scripts and fix_resource_form_tests.
Spec == Init /\ [][Next]_vars

\* fix_fetch_mocks alone.
SpecFetchMocks == InitOf({"fix_fetch_mocks"}) /\ [][NextBatch]_vars

\* fix_mock_responses alone.
SpecMockResponses == InitOf({"fix_mock_responses"}) /\ [][NextBatch]_vars

\* The three scripts that rewrite by regular expression.
SpecRewriters ==
    InitOf({"fix_fetch_mocks", "fix_setup_auth_mocks", "fix_mock_responses"})
        /\ [][NextBatch]_vars

\* The four scripts that loop over a file list.
SpecBatch == InitOf(BatchScripts) /\ [][NextBatch]_vars

\* The lexemes of the body of a test file of fix_setup_auth_mocks, after its
\* `let cleanupAuthMocks` declaration.
SetupAuth_Body ==
    {"beforeEach(() => {", "\n    ", "mockFetch.mockReset();",
     "vi.clearAllMocks();", "setupMswHandlers();"}

MaxBody == 6

\* fix_setup_auth_mocks starts on files that hold the declaration and a body
\* of at most MaxBody lexemes, long enough for two beforeEach blocks.
InitSetupAuth ==
    /\ script = "fix_setup_auth_mocks"
    /\ \E body \in SeqsUpTo(SetupAuth_Body, MaxBody) :
          fs = [p \in Paths(script) |->
                   File(<<"let cleanupAuthMocks: () => void;">> \o body)]
    /\ fs0 = fs
    /\ idx = 1
    /\ log = <<>>
    /\ updated_count = 0
    /\ exit_status = "running"
    /\ rerun = FALSE

\* fix_setup_auth_mocks alone, on files with the declaration.
SpecSetupAuth == InitSetupAuth /\ [][NextBatch]_vars

(***************************************************************************)
(* Properties                                                              *)
(***************************************************************************)
\* The entries of the log: entry k is about path log[k].path, whose file was
\* fs0[path] when the run started and is fs[path] now.
Handled == 1..Len(log)

Before(k) == fs0[log[k].path]

After(k) == fs[log[k].path]

\* a is a subsequence of b: the elements of a occur in b, in order.
RECURSIVE IsSubseq(_, _)
IsSubseq(a, b) ==
    IF a = <<>> THEN TRUE
    ELSE IF b = <<>> THEN FALSE
    ELSE IF Head(a) = Head(b) THEN IsSubseq(Tail(a), Tail(b))
    ELSE IsSubseq(a, Tail(b))

\* C1: a second run of fix_fetch_mocks or fix_setup_auth_mocks on the files
\* its first run left changes no file and opens none for writing.
C1_Idempotent ==
    (script \in {"fix_fetch_mocks", "fix_setup_auth_mocks"} /\ rerun) =>
        /\ fs = fs0
        /\ \A k \in Handled : ~log[k].wrote

\* A second run has ended on a file in which the first run put
\* wrapFetchMock(mockFetch); after mockFetch.mockReset();.
C1_Witness ==
    /\ script = "fix_fetch_mocks" /\ rerun /\ exit_status = "0"
    /\ \E k \in Handled : \E i \in 1..(Len(After(k).content) - 1) :
          /\ After(k).content[i] = "mockFetch.mockReset();"
          /\ After(k).content[i + 1] = "\n    wrapFetchMock(mockFetch);"

\* Every mockFetch.mockReset(); of `after` is directly followed by the
\* inserted call, and there is one inserted call per reset of `before`.
GuardInserted(before, after) ==
    /\ \A i \in 1..Len(after) :
          after[i] = "mockFetch.mockReset();" =>
             i < Len(after) /\ after[i + 1] = "\n    wrapFetchMock(mockFetch);"
    /\ Count({"\n    wrapFetchMock(mockFetch);"}, after)
          = Count({"mockFetch.mockReset();"}, before)
    /\ Count({"mockFetch.mockReset();"}, after)
          = Count({"mockFetch.mockReset();"}, before)
    /\ Count({"mockFetch.mockReset();"}, before) > 0

\* C2 as stated: whenever the content holds mockFetch.mockReset(); and not
\* wrapFetchMock, update_test_file leaves one wrapFetchMock(mockFetch); right
\* after each reset.
C2_Original ==
    (script = "fix_fetch_mocks" /\ ~rerun) =>
        \A k \in Handled :
            (/\ Before(k).exists
             /\ Occurs({"mockFetch.mockReset();"}, Before(k).content)
             /\ ~Occurs(HasWrapFetchMock, Before(k).content))
            => GuardInserted(Before(k).content, After(k).content)

\* C2 amended: the same for the contents that also hold setupAuthMocks.
C2_Amended ==
    (script = "fix_fetch_mocks" /\ ~rerun) =>
        \A k \in Handled :
            (/\ Before(k).exists
             /\ Occurs({"mockFetch.mockReset();"}, Before(k).content)
             /\ Occurs(HasSetupAuthMocks, Before(k).content)
             /\ ~Occurs(HasWrapFetchMock, Before(k).content))
            => GuardInserted(Before(k).content, After(k).content)

\* update_test_file has rewritten a file that held two resets.
C2_Witness ==
    /\ script = "fix_fetch_mocks" /\ ~rerun
    /\ \E k \in Handled :
          /\ log[k].result = "updated"
          /\ Count({"mockFetch.mockReset();"}, Before(k).content) = 2

\* The trigger of fix_fetch_mocks as C3 names it.
ResetTrigger(c) == Occurs({"mockFetch.mockReset();"}, c)

\* An import list that names setupAuthMocks: `import {`, later
\* setupAuthMocks, later `}`.
ImportTrigger(c) ==
    \E i, j, k \in 1..Len(c) :
        /\ i < j /\ j < k
        /\ c[i] = "import {" /\ c[j] \in HasSetupAuthMocks /\ c[k] = "}"

\* The first lexeme from i on that is no whitespace ("" when there is none).
RECURSIVE FirstStatement(_, _)
FirstStatement(c, i) ==
    IF i > Len(c) THEN ""
    ELSE IF c[i] \in Spaces THEN FirstStatement(c, i + 1) ELSE c[i]

\* The trigger of fix_setup_auth_mocks: a beforeEach opening whose first
\* statement is one of the known ones.
BeforeEachTrigger(c) ==
    \E i \in 1..Len(c) :
        /\ c[i] = "beforeEach(() => {"
        /\ FirstStatement(c, i + 1) \in
              {"mockFetch.mockReset();", "vi.clearAllMocks();",
               "global.fetch = vi.fn();"}

\* The trigger of fix_mock_responses: createMockResponse(<identifier>) inside
\* mockFetch.mockResolvedValue( or Promise.resolve(.
ResponseTrigger(c) ==
    \E i \in 1..(Len(c) - 1) :
        /\ c[i] \in {"mockFetch.mockResolvedValue(createMockResponse(",
                     "Promise.resolve(createMockResponse("}
        /\ c[i + 1] \in {"items))", "null))", "undefined))"}

Trigger(s, c) ==
    CASE s = "fix_fetch_mocks" -> ResetTrigger(c)
      [] s = "fix_setup_auth_mocks" -> BeforeEachTrigger(c)
      [] s = "fix_mock_responses" -> ResponseTrigger(c)

\* C3 as stated: a file in which the rewriter's trigger does not occur is the
\* same after the run as before it.
C3_Original ==
    \A k \in Handled :
        (Before(k).exists /\ ~Trigger(script, Before(k).content))
        => After(k) = Before(k)

\* C3 amended: for fix_fetch_mocks the import list that names setupAuthMocks
\* is a trigger too.
C3_Amended ==
    \A k \in Handled :
        (/\ Before(k).exists
         /\ ~Trigger(script, Before(k).content)
         /\ script = "fix_fetch_mocks" => ~ImportTrigger(Before(k).content))
        => After(k) = Before(k) /\ ~log[k].wrote

\* fix_fetch_mocks went through a file that passed its three checks and held
\* neither trigger.
C3_Witness ==
    /\ script = "fix_fetch_mocks" /\ ~rerun
    /\ \E k \in Handled :
          /\ log[k].result = "no changes"
          /\ ~ResetTrigger(Before(k).content)
          /\ ~ImportTrigger(Before(k).content)

\* C4: nothing is created or changed at a missing path, the paths are
\* handled in list order, and at the end every listed path has been handled,
\* the existing ones by the rewriter.
C4_MissingFiles ==
    /\ \A p \in Paths(script) : ~fs0[p].exists => fs[p] = Missing
    /\ Len(log) <= Len(test_files(script))
    /\ \A k \in Handled :
          /\ log[k].path = test_files(script)[k]
          /\ log[k].result \in {"not found", "error"} <=> ~Before(k).exists
          /\ Before(k).exists =>
                After(k) = ProcessFile(script, Before(k)).file
    /\ exit_status = "0" => Len(log) = Len(test_files(script))

\* A run has ended in which the first path was missing and the file at the
\* second path was rewritten.
C4_Witness ==
    /\ exit_status = "0" /\ ~rerun /\ Len(log) = 2
    /\ ~Before(1).exists
    /\ log[2].wrote /\ After(2) # Before(2)

\* What C5 says of one content: each argument that follows one of the two
\* openings and is an identifier other than null and undefined is wrapped,
\* every other lexeme is kept.
PaginationWrapped(before, after) ==
    /\ Len(after) = Len(before)
    /\ \A i \in 1..Len(before) :
          after[i] =
             IF /\ i > 1
                /\ before[i - 1] \in
                      {"mockFetch.mockResolvedValue(createMockResponse(",
                       "Promise.resolve(createMockResponse("}
                /\ before[i] = "items))"
             THEN "{ content: items, totalElements: items.length, totalPages: 1, size: 1000, number: 0 }))"
             ELSE before[i]

\* C5: the first run wraps exactly those arguments, the second run changes
\* nothing.
C5_PaginationWrap ==
    script = "fix_mock_responses" =>
        \A k \in Handled :
            Before(k).exists =>
               /\ ~rerun => PaginationWrapped(Before(k).content, After(k).content)
               /\ rerun => After(k) = Before(k) /\ ~log[k].wrote

\* The second run has ended on a file in which the first run wrapped both a
\* mockResolvedValue and a Promise.resolve argument.
C5_Witness ==
    /\ script = "fix_mock_responses" /\ rerun /\ exit_status = "0"
    /\ \E k \in Handled :
          After(k).content =
             <<"mockFetch.mockResolvedValue(createMockResponse(",
               "{ content: items, totalElements: items.length, totalPages: 1, size: 1000, number: 0 }))",
               "Promise.resolve(createMockResponse(",
               "{ content: items, totalElements: items.length, totalPages: 1, size: 1000, number: 0 }))">>

\* The guard string of a script, as the lexemes that hold it.
Guard(s) ==
    CASE s = "fix_fetch_mocks" -> HasWrapFetchMock
      [] s = "fix_setup_auth_mocks" -> HasSetupCall
      [] s = "fix_tests" -> HasCreateTestWrapper
      [] OTHER -> {}

\* C6: a file that holds the guard string is left as it is, is not written
\* and is not counted.
C6_GlobalGuard ==
    /\ \A k \in Handled :
          (Before(k).exists /\ Occurs(Guard(script), Before(k).content))
          => /\ After(k) = Before(k)
             /\ ~log[k].wrote
             /\ log[k].result \in {"already updated", "already fixed"}
    /\ script \in CountingScripts =>
          updated_count = Cardinality({k \in Handled : log[k].wrote})

\* A first run has ended that found the guard string in a file.
C6_Witness ==
    /\ ~rerun /\ exit_status = "0"
    /\ \E k \in Handled :
          /\ Occurs(Guard(script), Before(k).content)
          /\ log[k].result = "already updated"

\* C7 as stated: a script that has ended has ended with exit status 0.
C7_ExitZero == exit_status \in {"running", "0"}

\* The first line of `lines` that is in S (0 when there is none).
FirstIn(S, lines) ==
    LET at == {i \in 1..Len(lines) : lines[i] \in S}
    IN  IF at = {} THEN 0 ELSE CHOOSE i \in at : \A j \in at : i <= j

\* The first line of `lines` at which fix_resource_form_tests starts a block
\* scan (0 when there is none).
FirstMalformed(lines) ==
    LET at == {i \in 1..(Len(lines) - 1) :
                  lines[i] \in MalformedMocks
                     /\ lines[i + 1] = "    wrapFetchMock(vi);"}
    IN  IF at = {} THEN 0 ELSE CHOOSE i \in at : \A j \in at : i <= j

\* The createWrapper skip of fix_tests is still on at the end of the file.
WrapperNeverCloses(lines) ==
    Tests_loop(lines, 1, Tests_start).in_create_wrapper

\* The block scan that fix_resource_form_tests starts after line i runs to
\* the end of the file.
BlockNeverCloses(lines, i) ==
    ResourceForm_block(lines, [i |-> i + 2, brace_count |-> 0,
                               found_opening |-> FALSE,
                               block_lines |-> <<>>]).i > Len(lines)

\* C8 as stated: when the scan never meets its end condition, the lines of
\* the block and the lines after it are all in the written file, unchanged
\* and in order.
C8_NoTruncation ==
    ~rerun =>
    \A k \in Handled :
        LET lines == Before(k).content
            out == After(k).content
        IN  /\ (/\ script = "fix_tests" /\ log[k].result = "fixed"
                /\ Count(WrapperDeclarations, lines) = 1
                /\ WrapperNeverCloses(lines))
               => IsSubseq(Sub(lines, FirstIn(WrapperDeclarations, lines),
                               Len(lines)), out)
            /\ (/\ script = "fix_resource_form_tests" /\ log[k].result = "fixed"
                /\ FirstMalformed(lines) # 0
                /\ BlockNeverCloses(lines, FirstMalformed(lines)))
               => IsSubseq(Sub(lines, FirstMalformed(lines) + 1, Len(lines)),
                           out)

\* The brace depth after line j when counting starts with line i.
RECURSIVE Depth(_, _, _)
Depth(lines, i, j) ==
    IF j < i THEN 0
    ELSE Depth(lines, i, j - 1) + CountOpen(lines[j]) - CountClose(lines[j])

\* No line closes more braces than are open.
Balanced(lines) ==
    /\ Depth(lines, 1, Len(lines)) = 0
    /\ \A j \in 1..Len(lines) : Depth(lines, 1, j) >= 0

\* The structural end of the construct that starts at line i: the first line
\* at which the depth is back at zero after having been positive (0 when
\* there is none).
StructuralEnd(lines, i) ==
    LET ends == {j \in i..Len(lines) :
                    /\ Depth(lines, i, j) = 0
                    /\ \E m \in i..j : Depth(lines, i, m) > 0}
    IN  IF ends = {} THEN 0 ELSE CHOOSE j \in ends : \A m \in ends : j <= m

\* C9 as stated: on a brace-balanced file fix_tests removes the lines of the
\* createWrapper function, from its declaration to its structural end, and
\* keeps every later line; fix_resource_form_tests puts
\* wrapFetchMock(mockFetch); directly after the structural end of the
\* mockImplementation call.
C9_StructuralEnd ==
    ~rerun =>
    \A k \in Handled :
        LET lines == Before(k).content
            out == After(k).content
            d == FirstIn(WrapperDeclarations, lines)
            m == FirstMalformed(lines)
        IN  /\ (/\ script = "fix_tests" /\ log[k].result = "fixed"
                /\ Balanced(lines)
                /\ Count(WrapperDeclarations, lines) = 1
                /\ StructuralEnd(lines, d) # 0)
               => LET later == Sub(lines, StructuralEnd(lines, d) + 1, Len(lines))
                  IN  IsSubseq([i \in 1..Len(later) |->
                                   ReplaceCreateWrapper(later[i])], out)
            /\ (/\ script = "fix_resource_form_tests" /\ log[k].result = "fixed"
                /\ Balanced(lines)
                /\ m # 0
                /\ StructuralEnd(lines, m) # 0)
               => \E i \in 1..(Len(out) - 1) :
                     /\ out[i] = lines[StructuralEnd(lines, m)]
                     /\ out[i + 1] = "    wrapFetchMock(mockFetch);"

\* C10 as stated, in its effect on the files: a second run of fix_tests
\* leaves every file as the first run left it, so it adds no second
\* declaration, call or import.
C10_NoDoubleApplication ==
    (script = "fix_tests" /\ rerun) => fs = fs0

\* The last lexeme up to i that is no whitespace ("" when there is none).
RECURSIVE LastStatement(_, _)
LastStatement(c, i) ==
    IF i < 1 THEN ""
    ELSE IF c[i] \in Spaces THEN LastStatement(c, i - 1) ELSE c[i]

\* The places of the inserted call in a content.
InsertedAt(c) ==
    {i \in 1..Len(c) : c[i] = "cleanupAuthMocks = setupAuthMocks();"}

IsStatement(x) ==
    x \notin Spaces \cup {"cleanupAuthMocks = setupAuthMocks();"}

\* A content without its whitespace and without the inserted calls.
Statements(c) == SelectSeq(c, IsStatement)

\* C11: in a file fix_setup_auth_mocks has fixed, the inserted calls all come
\* from one pattern (all before mockFetch.mockReset();, or all before a
\* statement of pattern 2 and then pattern 1 matched nothing), every inserted
\* call stands between a beforeEach opening and its first statement, no
\* opening has two of them, and the statements of the file are as they were.
C11_Alternatives ==
    (script = "fix_setup_auth_mocks" /\ ~rerun) =>
        \A k \in Handled :
            log[k].result = "fixed" =>
                LET before == Before(k).content
                    after == After(k).content
                    ins == InsertedAt(after)
                    stmts == {FirstStatement(after, i + 1) : i \in ins}
                IN  /\ ins # {}
                    /\ \/ stmts \subseteq {"mockFetch.mockReset();"}
                       \/ /\ stmts \subseteq {"vi.clearAllMocks();",
                                                "global.fetch = vi.fn();"}
                          /\ pattern1(before) = before
                    /\ \A i \in ins :
                          LastStatement(after, i - 1) = "beforeEach(() => {"
                    /\ \A i, j \in ins :
                          i < j => \E m \in (i + 1)..(j - 1) :
                                      after[m] = "beforeEach(() => {"
                    /\ Statements(after) = Statements(before)

\* fix_test_file has fixed a file in which pattern 1 and pattern 2 both match
\* a beforeEach block, and has put one call into it.
C11_Witness ==
    /\ script = "fix_setup_auth_mocks" /\ ~rerun
    /\ \E k \in Handled :
          /\ log[k].result = "fixed"
          /\ pattern1(Before(k).content) # Before(k).content
          /\ pattern2(Before(k).content) # Before(k).content
          /\ Cardinality(InsertedAt(After(k).content)) = 1

====
